---- MODULE Spec2Model ----
(***************************************************************************)
(* Model of the content script of "Hide Deployments for GitHub"            *)
(* (src/unnamed/part_001, lines 1-453) and of the messages its popup       *)
(* (src/popup/popup.js) sends to it.                                       *)
(*                                                                         *)
(* The host document is kept as                                            *)
(*   doc      the timeline entries the script classifies, in document      *)
(*            order, each with the hide classes it carries;                *)
(*   buttons  the number of idle "Load more" controls;                     *)
(*   loading  the number of "Load more" controls that were activated and   *)
(*            whose content the host has not delivered yet;                *)
(*   envs     the environments boxes (toggle expanded?, list full height?).*)
(* Every handler of the script is one action that runs to completion.  A   *)
(* change the host makes to the document and the MutationObserver callback *)
(* that follows it (a microtask) are one action.  The data-* attributes    *)
(* the script writes on an entry are never read by it and are not kept.    *)
(***************************************************************************)
EXTENDS Integers, Sequences, FiniteSets, TLC

VARIABLES
  settings,                     \* the cached settings snapshot
  expansionCount,               \* "Load more" activations counted by the script
  hasAutoExpandedEnvironments,  \* the auto-expand latch
  pc,                           \* "loading" while init awaits loadSettings, then "ready"
  doc, buttons, loading, envs,  \* the host document
  attrQueue,                    \* aria-expanded mutation records not delivered yet
  clicks,                       \* history: button.click() calls on "Load more", this page lifetime
  envClicks,                    \* history: button.click() calls on the environments toggle, this page lifetime
  exhausted,                    \* history: expansionCount has reached expansionLimit in this page lifetime
  offByMsg,                     \* history: enabled is false since a settingsChanged notification
  afterSettings,                \* history: the last thing that happened is a settingsChanged reconciliation
  navigated,                    \* history: the last thing that happened is a navigation that found a counter raised
  field,                        \* popup: the text in the expansion-limit input
  store,                        \* popup: the keys the popup has written to chrome.storage.sync
  outbox,                       \* popup: the settingsChanged messages sent and not yet handled by the tab, in order
  tasks,                        \* popup: the handler invocations suspended at an await
  origin                        \* history: the store's record when the content script was loaded

vars == <<settings, expansionCount, hasAutoExpandedEnvironments, pc, doc, buttons,
          loading, envs, attrQueue, clicks, envClicks, exhausted, offByMsg, afterSettings, navigated,
          field, store, outbox, tasks, origin>>

(***************************************************************************)
(* Bounds of the model.                                                    *)
(***************************************************************************)
MaxEntries == 3      \* timeline entries in the document
MaxOldEntries == 4   \* entries of the documents hideOldSuccessfulDeployments is applied to on its own
MaxLimit == 3        \* largest expansionLimit a notification or the store carries
MaxButtons == 1      \* idle "Load more" controls in the document
MaxSections == 1     \* environments boxes in the document

(***************************************************************************)
(* Program constants.                                                      *)
(***************************************************************************)
CLASS_SUCCESSFUL_DEPLOYMENT == "gh-hide-successful-deployment"
CLASS_OLD_DEPLOYMENT == "gh-hide-old-deployment"
CLASS_DESTROYED_DEPLOYMENT == "gh-hide-destroyed-deployment"
CLASS_FAILED_DEPLOYMENT == "gh-hide-failed-deployment"

HideClasses == {CLASS_SUCCESSFUL_DEPLOYMENT, CLASS_OLD_DEPLOYMENT,
                CLASS_DESTROYED_DEPLOYMENT, CLASS_FAILED_DEPLOYMENT}

DefaultExpansionLimit == 2

DEFAULT_SETTINGS ==
  [enabled |-> TRUE,
   hideSuccessfulDeployments |-> TRUE,
   hideOldSuccessfulDeployments |-> TRUE,
   hideDestroyedDeployments |-> TRUE,
   hideFailedDeployments |-> FALSE,
   autoExpandEnvironments |-> TRUE,
   environmentsFullHeight |-> TRUE,
   autoExpandLoadMore |-> TRUE,
   expansionLimit |-> DefaultExpansionLimit]

(***************************************************************************)
(* Timeline entries.  kind "deployed" is a container whose data-url holds  *)
(* "/partials/deployed_event/"; "destroyed" and "failed" are the           *)
(* containers of a status label with that title.  link is the trimmed text *)
(* of the entry's primary bold link, NoLink when it has none.              *)
(***************************************************************************)
NoLink == "<none>"
LinkTexts == {"staging", "prod"}

NewEntry(kind, link) == [kind |-> kind, link |-> link, cls |-> {}]

DeployedEntries == {NewEntry("deployed", l) : l \in LinkTexts}
StatusEntries == {NewEntry("destroyed", NoLink), NewEntry("failed", NoLink)}
FreshEntries == DeployedEntries \cup StatusEntries

IsDeployed(e) == e.kind = "deployed"
IsDestroyed(e) == e.kind = "destroyed"
IsFailed(e) == e.kind = "failed"

AddClass(e, c) == [e EXCEPT !.cls = @ \cup {c}]
RemoveClass(e, c) == [e EXCEPT !.cls = @ \ {c}]

\* An entry is hidden when it carries at least one of the four hide classes.
Hidden(e) == e.cls \cap HideClasses # {}

(***************************************************************************)
(* The hide/show functions, on the sequence of entries.                    *)
(***************************************************************************)
\* Mutant: the destroyed entries are taken out of the document.
hideDestroyedDeployments_Removes(d) ==
  SelectSeq(d, LAMBDA e : ~IsDestroyed(e))

hideDestroyedDeployments(d) ==
  [i \in DOMAIN d |->
     IF IsDestroyed(d[i]) THEN AddClass(d[i], CLASS_DESTROYED_DEPLOYMENT) ELSE d[i]]

showDestroyedDeployments(d) ==
  [i \in DOMAIN d |-> RemoveClass(d[i], CLASS_DESTROYED_DEPLOYMENT)]

hideFailedDeployments(d) ==
  [i \in DOMAIN d |->
     IF IsFailed(d[i]) THEN AddClass(d[i], CLASS_FAILED_DEPLOYMENT) ELSE d[i]]

showFailedDeployments(d) ==
  [i \in DOMAIN d |-> RemoveClass(d[i], CLASS_FAILED_DEPLOYMENT)]

\* Mutant: classList.toggle in place of classList.add.
hideSuccessfulDeployments_Toggle(d) ==
  [i \in DOMAIN d |->
     IF ~IsDeployed(d[i]) THEN d[i]
     ELSE IF CLASS_SUCCESSFUL_DEPLOYMENT \in d[i].cls
          THEN RemoveClass(d[i], CLASS_SUCCESSFUL_DEPLOYMENT)
          ELSE AddClass(d[i], CLASS_SUCCESSFUL_DEPLOYMENT)]

hideSuccessfulDeployments(d) ==
  [i \in DOMAIN d |->
     IF IsDeployed(d[i]) THEN AddClass(d[i], CLASS_SUCCESSFUL_DEPLOYMENT) ELSE d[i]]

showSuccessfulDeployments(d) ==
  [i \in DOMAIN d |-> RemoveClass(d[i], CLASS_SUCCESSFUL_DEPLOYMENT)]

\* envName: the trimmed link text, 'unknown' without a link.
\* textContent.trim() on the link texts of the model: the padded ones lose
\* their white space, the others have none.
Trim(t) ==
  CASE t = " unknown " -> "unknown"
    [] t = " staging" -> "staging"
    [] OTHER -> t

\* Mutant: the link text is taken as it is.
EnvName_Untrimmed(e) == IF e.link = NoLink THEN "unknown" ELSE e.link

EnvName(e) == IF e.link = NoLink THEN "unknown" ELSE Trim(e.link)

\* deploymentsByEnv.get(env): the positions of the deployment containers of
\* one environment (their document order is the order of the positions).
deploymentsByEnv(d, env) ==
  {i \in DOMAIN d : IsDeployed(d[i]) /\ EnvName(d[i]) = env}

\* The last element of a group, in document order.
LastOf(g) == CHOOSE i \in g : \A j \in g : j <= i

\* Mutant: the loop spares the first entry of a group instead of the last.
OldPositions_SparesFirst(d) ==
  {i \in DOMAIN d :
     /\ IsDeployed(d[i])
     /\ LET g == deploymentsByEnv(d, EnvName(d[i]))
        IN  Cardinality(g) > 1 /\ \E j \in g : j < i}

\* The positions the loop "for (i = 0; i < deployments.length - 1; i++)" visits,
\* over every group of more than one entry.
OldPositions(d) ==
  {i \in DOMAIN d :
     /\ IsDeployed(d[i])
     /\ LET g == deploymentsByEnv(d, EnvName(d[i]))
        IN  Cardinality(g) > 1 /\ i # LastOf(g)}

hideOldSuccessfulDeployments(d) ==
  [i \in DOMAIN d |->
     IF i \in OldPositions(d) THEN AddClass(d[i], CLASS_OLD_DEPLOYMENT) ELSE d[i]]

showOldDeployments(d) ==
  [i \in DOMAIN d |-> RemoveClass(d[i], CLASS_OLD_DEPLOYMENT)]

(***************************************************************************)
(* The page: the host document together with the script's counters.  The   *)
(* functions below take a settings snapshot s and a page p and return the  *)
(* page they leave.  p.observing says whether the MutationObserver is      *)
(* installed, so that an aria-expanded change is recorded for it.          *)
(***************************************************************************)
Page ==
  [doc |-> doc, buttons |-> buttons, loading |-> loading, envs |-> envs,
   attrQueue |-> attrQueue, expansionCount |-> expansionCount,
   hasAutoExpandedEnvironments |-> hasAutoExpandedEnvironments,
   clicks |-> clicks, envClicks |-> envClicks, observing |-> (pc = "ready")]

\* The boxes whose toggle is collapsed and labelled 'Show environments'.
CollapsedBoxes(p) == {i \in DOMAIN p.envs : ~p.envs[i].expanded}

\* The positions of a set, in increasing order.
InOrder(n, S) == SelectSeq([i \in 1..n |-> i], LAMBDA i : i \in S)

\* Mutant: the early return on hasAutoExpandedEnvironments is missing.
expandEnvironments_LatchAlways(p) ==
  IF p.hasAutoExpandedEnvironments THEN p
  ELSE LET hit == CollapsedBoxes(p)
       IN  [p EXCEPT
              !.envs = [i \in DOMAIN p.envs |->
                          IF i \in hit THEN [p.envs[i] EXCEPT !.expanded = TRUE]
                          ELSE p.envs[i]],
              !.envClicks = @ + Cardinality(hit),
              !.attrQueue = IF p.observing
                            THEN @ \o InOrder(Len(p.envs), hit) ELSE @,
              !.hasAutoExpandedEnvironments = TRUE]

expandEnvironments_NoLatch(p) ==
  LET hit == CollapsedBoxes(p)
  IN  IF hit = {} THEN p
      ELSE [p EXCEPT
              !.envs = [i \in DOMAIN p.envs |->
                          IF i \in hit THEN [p.envs[i] EXCEPT !.expanded = TRUE]
                          ELSE p.envs[i]],
              !.envClicks = @ + Cardinality(hit),
              !.attrQueue = IF p.observing
                            THEN @ \o InOrder(Len(p.envs), hit) ELSE @,
              !.hasAutoExpandedEnvironments = TRUE]

expandEnvironments(p) ==
  IF p.hasAutoExpandedEnvironments THEN p
  ELSE LET hit == CollapsedBoxes(p)
       IN  IF hit = {} THEN p
           ELSE [p EXCEPT
                   !.envs = [i \in DOMAIN p.envs |->
                               IF i \in hit THEN [p.envs[i] EXCEPT !.expanded = TRUE]
                               ELSE p.envs[i]],
                   !.envClicks = @ + Cardinality(hit),
                   !.attrQueue = IF p.observing
                                 THEN @ \o InOrder(Len(p.envs), hit) ELSE @,
                   !.hasAutoExpandedEnvironments = TRUE]

setEnvironmentsFullHeight(p) ==
  [p EXCEPT !.envs = [i \in DOMAIN p.envs |-> [p.envs[i] EXCEPT !.full = TRUE]]]

resetEnvironmentsHeight(p) ==
  [p EXCEPT !.envs = [i \in DOMAIN p.envs |-> [p.envs[i] EXCEPT !.full = FALSE]]]

\* Mutant: the loop does not return after the first matching control.
ClickLoadMore_All(p) ==
  [p EXCEPT !.expansionCount = @ + p.buttons,
            !.clicks = @ + p.buttons,
            !.buttons = 0,
            !.loading = @ + p.buttons]

\* The activation of the first matching control: expansionCount++, then
\* button.click(), which puts the control in its loading state.
ClickLoadMore(p) ==
  [p EXCEPT !.expansionCount = @ + 1,
            !.clicks = @ + 1,
            !.buttons = @ - 1,
            !.loading = @ + 1]

\* Mutant: the limit test is > instead of >=.
expandLoadMore_OffByOne(s, p) ==
  IF p.expansionCount > s.expansionLimit THEN p
  ELSE IF p.buttons = 0 THEN p
  ELSE ClickLoadMore(p)

\* Mutant: the limit test is === instead of >=.
expandLoadMore_Equal(s, p) ==
  IF p.expansionCount = s.expansionLimit THEN p
  ELSE IF p.buttons = 0 THEN p
  ELSE ClickLoadMore(p)

expandLoadMore(s, p) ==
  IF p.expansionCount >= s.expansionLimit THEN p
  ELSE IF p.buttons = 0 THEN p
  ELSE ClickLoadMore(p)

\* Mutant: the precedence of the two successful-entry flags inverted.
ApplySuccessful_OldFirst(s, d) ==
  IF s.hideOldSuccessfulDeployments
  THEN hideOldSuccessfulDeployments(showSuccessfulDeployments(d))
  ELSE IF s.hideSuccessfulDeployments THEN hideSuccessfulDeployments(d)
       ELSE showOldDeployments(showSuccessfulDeployments(d))

\* "Handle successful deployments" of applySettings (lines 232-242).
ApplySuccessful(s, d) ==
  IF s.hideSuccessfulDeployments THEN hideSuccessfulDeployments(d)
  ELSE IF s.hideOldSuccessfulDeployments
       THEN hideOldSuccessfulDeployments(showSuccessfulDeployments(d))
       ELSE showOldDeployments(showSuccessfulDeployments(d))

\* Mutant: the destroyed rule applied only in the branch where
\* hideSuccessfulDeployments is off.
ApplyDestroyed_Nested(s, d) ==
  IF s.hideSuccessfulDeployments THEN d
  ELSE IF s.hideDestroyedDeployments THEN hideDestroyedDeployments(d)
       ELSE showDestroyedDeployments(d)

ApplyDestroyed(s, d) ==
  IF s.hideDestroyedDeployments THEN hideDestroyedDeployments(d)
  ELSE showDestroyedDeployments(d)

ApplyFailed(s, d) ==
  IF s.hideFailedDeployments THEN hideFailedDeployments(d)
  ELSE showFailedDeployments(d)

\* Mutant: the disabled branch forgets showFailedDeployments.
ShowEverything_NotFailed(d) ==
  showDestroyedDeployments(showOldDeployments(showSuccessfulDeployments(d)))

ShowEverything(d) ==
  showFailedDeployments(showDestroyedDeployments(
    showOldDeployments(showSuccessfulDeployments(d))))

\* Mutant: turning the extension off also restarts the counters.
\* Mutant: the reconciliation ends with the pagination step of processPage.
applySettings_Paginates(s, p) ==
  IF ~s.enabled THEN [p EXCEPT !.doc = ShowEverything(p.doc)]
  ELSE LET p1 == [p EXCEPT !.doc = ApplyFailed(s, ApplyDestroyed(s, ApplySuccessful(s, p.doc)))]
           p2 == IF s.autoExpandEnvironments THEN expandEnvironments(p1) ELSE p1
           p3 == IF s.environmentsFullHeight THEN setEnvironmentsFullHeight(p2)
                 ELSE resetEnvironmentsHeight(p2)
       IN  IF s.autoExpandLoadMore THEN expandLoadMore(s, p3) ELSE p3

applySettings_Restart(s, p) ==
  IF ~s.enabled THEN [p EXCEPT !.doc = ShowEverything(p.doc),
                               !.expansionCount = 0,
                               !.hasAutoExpandedEnvironments = FALSE]
  ELSE LET p1 == [p EXCEPT !.doc = ApplyFailed(s, ApplyDestroyed(s, ApplySuccessful(s, p.doc)))]
           p2 == IF s.autoExpandEnvironments THEN expandEnvironments(p1) ELSE p1
       IN  IF s.environmentsFullHeight THEN setEnvironmentsFullHeight(p2)
           ELSE resetEnvironmentsHeight(p2)

applySettings(s, p) ==
  IF ~s.enabled THEN [p EXCEPT !.doc = ShowEverything(p.doc)]
  ELSE LET p1 == [p EXCEPT !.doc = ApplyFailed(s, ApplyDestroyed(s, ApplySuccessful(s, p.doc)))]
           p2 == IF s.autoExpandEnvironments THEN expandEnvironments(p1) ELSE p1
       IN  IF s.environmentsFullHeight THEN setEnvironmentsFullHeight(p2)
           ELSE resetEnvironmentsHeight(p2)

\* The add-only pass over the entries that processPage and the observer share.
HideOnly(s, d) ==
  LET d1 == IF s.hideSuccessfulDeployments THEN hideSuccessfulDeployments(d)
            ELSE IF s.hideOldSuccessfulDeployments THEN hideOldSuccessfulDeployments(d)
            ELSE d
      d2 == IF s.hideDestroyedDeployments THEN hideDestroyedDeployments(d1) ELSE d1
  IN  IF s.hideFailedDeployments THEN hideFailedDeployments(d2) ELSE d2

\* Mutant: the pass does not return when the extension is off.
processPage_Ungated(s, p) ==
  LET p1 == [p EXCEPT !.doc = HideOnly(s, p.doc)]
      p2 == IF s.autoExpandEnvironments
            THEN LET q == expandEnvironments(p1)
                 IN  IF s.environmentsFullHeight
                     THEN setEnvironmentsFullHeight(q) ELSE q
            ELSE p1
  IN  IF s.autoExpandLoadMore THEN expandLoadMore(s, p2) ELSE p2

processPage(s, p) ==
  IF ~s.enabled THEN p
  ELSE LET p1 == [p EXCEPT !.doc = HideOnly(s, p.doc)]
           p2 == IF s.autoExpandEnvironments
                 THEN LET q == expandEnvironments(p1)
                      IN  IF s.environmentsFullHeight
                          THEN setEnvironmentsFullHeight(q) ELSE q
                 ELSE p1
       IN  IF s.autoExpandLoadMore THEN expandLoadMore(s, p2) ELSE p2

(***************************************************************************)
(* The MutationObserver callback.  A batch b says which aria-expanded      *)
(* records it holds (b.attrs, positions of boxes) and what its added nodes *)
(* match: b.newDeployments, b.newTimeline, b.newEnvs, b.newList.           *)
(***************************************************************************)
Batch(attrs, dep, tl, env, list) ==
  [attrs |-> attrs, newDeployments |-> dep, newTimeline |-> tl,
   newEnvs |-> env, newList |-> list]

\* Mutant: the expanded branch does not test enabled and environmentsFullHeight.
RECURSIVE HandleAttributes_Unflagged(_, _, _)
HandleAttributes_Unflagged(s, attrs, p) ==
  IF attrs = <<>> THEN p
  ELSE LET i == Head(attrs)
           q == IF i \notin DOMAIN p.envs THEN p
                ELSE IF p.envs[i].expanded THEN setEnvironmentsFullHeight(p)
                ELSE resetEnvironmentsHeight(p)
       IN  HandleAttributes_Unflagged(s, Tail(attrs), q)

RECURSIVE HandleAttributes(_, _, _)
HandleAttributes(s, attrs, p) ==
  IF attrs = <<>> THEN p
  ELSE LET i == Head(attrs)
           q == IF i \notin DOMAIN p.envs THEN p
                ELSE IF p.envs[i].expanded /\ s.enabled /\ s.environmentsFullHeight
                     THEN setEnvironmentsFullHeight(p)
                ELSE IF ~p.envs[i].expanded THEN resetEnvironmentsHeight(p)
                ELSE p
       IN  HandleAttributes(s, Tail(attrs), q)

observerCallback(s, b, p) ==
  LET p0 == HandleAttributes(s, b.attrs, p)
      p1 == IF b.newDeployments /\ s.enabled
            THEN [p0 EXCEPT !.doc = HideOnly(s, p0.doc)] ELSE p0
      p2 == IF b.newTimeline /\ s.enabled /\ s.autoExpandLoadMore
            THEN expandLoadMore(s, p1) ELSE p1
      p3 == IF b.newEnvs /\ s.enabled
            THEN LET q == IF s.autoExpandEnvironments THEN expandEnvironments(p2) ELSE p2
                 IN  IF s.environmentsFullHeight THEN setEnvironmentsFullHeight(q) ELSE q
            ELSE p2
  IN  IF b.newList /\ s.enabled /\ s.environmentsFullHeight
         /\ \E i \in DOMAIN p3.envs : p3.envs[i].expanded
      THEN setEnvironmentsFullHeight(p3) ELSE p3

(***************************************************************************)
(* Settings records.                                                       *)
(***************************************************************************)
\* Mutant: the keys absent from the message fall back to their defaults.
Merge_OverDefaults(s, m) ==
  [k \in DOMAIN s |-> IF k \in DOMAIN m THEN m[k] ELSE DEFAULT_SETTINGS[k]]

\* settings = { ...settings, ...message.settings }
Merge(s, m) == [k \in DOMAIN s |-> IF k \in DOMAIN m THEN m[k] ELSE s[k]]

\* The message saveSetting(key, value) sends.
Single(k, v) == [x \in {k} |-> v]

VisibilityFlags == {"enabled", "hideSuccessfulDeployments", "hideOldSuccessfulDeployments",
                    "hideDestroyedDeployments", "hideFailedDeployments"}
PaginationFlags == {"enabled", "autoExpandLoadMore"}

\* A full record with the given flags chosen freely and the other keys at their defaults.
RecordsOver(flags) ==
  {Merge(DEFAULT_SETTINGS, m) : m \in [flags -> BOOLEAN]}

\* A record without keys.
NoRecord == [k \in {} |-> TRUE]

\* The popup has not been opened: nothing typed, written or sent.
PopupClosed ==
  /\ field = <<>>
  /\ store = NoRecord
  /\ outbox = <<>>
  /\ tasks = <<>>
  /\ origin = NoRecord

(***************************************************************************)
(* The state a handler leaves.  turn is "settings", "load", "navigation"   *)
(* or "host", or "delivery" when the handler is the onMessage listener     *)
(* taking the oldest message the popup has sent.                           *)
(***************************************************************************)
Leave(s, p, turn) ==
  /\ settings' = s
  /\ doc' = p.doc
  /\ buttons' = p.buttons
  /\ loading' = p.loading
  /\ envs' = p.envs
  /\ attrQueue' = p.attrQueue
  /\ expansionCount' = p.expansionCount
  /\ hasAutoExpandedEnvironments' = p.hasAutoExpandedEnvironments
  /\ clicks' = p.clicks
  /\ envClicks' = p.envClicks
  /\ exhausted' = IF turn = "navigation" THEN p.expansionCount >= s.expansionLimit
                  ELSE exhausted \/ p.expansionCount >= s.expansionLimit
  /\ offByMsg' = IF turn \in {"settings", "delivery"} THEN ~s.enabled
                 ELSE offByMsg /\ ~s.enabled
  /\ afterSettings' = (turn \in {"settings", "delivery"})
  /\ navigated' = (turn = "navigation"
                     /\ (expansionCount > 0 \/ hasAutoExpandedEnvironments))
  /\ outbox' = IF turn = "delivery" THEN Tail(outbox) ELSE outbox
  /\ UNCHANGED <<field, store, tasks, origin>>

(***************************************************************************)
(* The script's handlers.                                                  *)
(***************************************************************************)
\* chrome.runtime.onMessage listener, registered when the script is loaded.
SettingsChanged(m) ==
  /\ attrQueue = <<>>
  /\ LET s == Merge(settings, m)
     IN  Leave(s, applySettings(s, Page), "settings")
  /\ pc' = pc

\* init: loadSettings resolves with the stored record, then the first pass.
LoadSettings(stored) ==
  /\ pc = "loading"
  /\ LET s == Merge(settings, stored)
     IN  Leave(s, processPage(s, Page), "load")
  /\ pc' = "ready"

\* Mutant: the rejection is not caught and init stops at the await.
LoadSettingsFails_Throws ==
  /\ pc = "loading"
  /\ Leave(settings, Page, "load")
  /\ pc' = "failed"

\* init: chrome.storage.sync.get rejects; the snapshot in hand is kept.
LoadSettingsFails ==
  /\ pc = "loading"
  /\ Leave(settings, processPage(settings, Page), "load")
  /\ pc' = "ready"

\* Mutant: the listener resets expansionCount only.
Navigation_CountOnly ==
  /\ pc = "ready"
  /\ attrQueue = <<>>
  /\ Leave(settings,
           processPage(settings, [Page EXCEPT !.expansionCount = 0,
                                              !.clicks = 0,
                                              !.envClicks = 0,
                                              !.loading = 0]),
           "navigation")
  /\ pc' = pc

\* turbo:load listener.  The event follows the rendering of the visited page,
\* so the controls of the page left behind that were still loading are gone.
Navigation ==
  /\ pc = "ready"
  /\ attrQueue = <<>>
  /\ Leave(settings,
           processPage(settings, [Page EXCEPT !.expansionCount = 0,
                                              !.hasAutoExpandedEnvironments = FALSE,
                                              !.clicks = 0,
                                              !.envClicks = 0,
                                              !.loading = 0]),
           "navigation")
  /\ pc' = pc

(***************************************************************************)
(* The host page.  What it does to the document reaches the script as one  *)
(* batch of the MutationObserver once the observer is installed, and goes  *)
(* unobserved before.                                                      *)
(***************************************************************************)
Observe(b, p) ==
  /\ IF pc = "ready"
     THEN Leave(settings, observerCallback(settings, b, [p EXCEPT !.attrQueue = <<>>]), "host")
     ELSE Leave(settings, p, "host")
  /\ pc' = pc

InsertAt(d, k, e) == SubSeq(d, 1, k - 1) \o <<e>> \o SubSeq(d, k, Len(d))
RemoveAt(d, k) == SubSeq(d, 1, k - 1) \o SubSeq(d, k + 1, Len(d))

\* The host inserts a timeline entry at position k.
HostInsertsEntry(e, k) ==
  /\ Len(doc) < MaxEntries
  /\ k \in 1..Len(doc) + 1
  /\ Observe(Batch(attrQueue, TRUE, TRUE, FALSE, FALSE),
             [Page EXCEPT !.doc = InsertAt(doc, k, e)])

\* The host removes the entry at position k: a batch without added nodes.
HostRemovesEntry(k) ==
  /\ k \in 1..Len(doc)
  /\ Observe(Batch(attrQueue, FALSE, FALSE, FALSE, FALSE),
             [Page EXCEPT !.doc = RemoveAt(doc, k)])

\* The host inserts other timeline content (comments, commits).
HostInsertsContent ==
  /\ attrQueue = <<>>
  /\ Observe(Batch(<<>>, FALSE, TRUE, FALSE, FALSE), Page)

\* The host inserts a "Load more" control.
HostInsertsButton ==
  /\ buttons < MaxButtons
  /\ Observe(Batch(attrQueue, FALSE, TRUE, FALSE, FALSE),
             [Page EXCEPT !.buttons = @ + 1])

\* The host delivers the content an activated "Load more" control asked for,
\* and renders a new control after it or not.
HostDeliversMore(again) ==
  /\ loading > 0
  /\ ~again \/ buttons < MaxButtons
  /\ Observe(Batch(attrQueue, FALSE, TRUE, FALSE, FALSE),
             [Page EXCEPT !.loading = @ - 1,
                          !.buttons = IF again THEN @ + 1 ELSE @])

(***************************************************************************)
(* Specification of the visibility reconciliation: the document holds      *)
(* timeline entries only.                                                  *)
(***************************************************************************)
InitScript ==
  /\ settings = DEFAULT_SETTINGS
  /\ expansionCount = 0
  /\ hasAutoExpandedEnvironments = FALSE
  /\ pc = "loading"
  /\ attrQueue = <<>>
  /\ clicks = 0
  /\ envClicks = 0
  /\ exhausted = FALSE
  /\ offByMsg = FALSE
  /\ afterSettings = FALSE
  /\ navigated = FALSE
  /\ PopupClosed

Init ==
  /\ InitScript
  /\ doc = <<>>
  /\ buttons = 0
  /\ loading = 0
  /\ envs = <<>>

VisibilityMessages ==
  {Single(k, v) : k \in VisibilityFlags, v \in BOOLEAN} \cup {DEFAULT_SETTINGS}

Next ==
  \/ \E m \in VisibilityMessages : SettingsChanged(m)
  \/ \E stored \in RecordsOver(VisibilityFlags) : LoadSettings(stored)
  \/ LoadSettingsFails
  \/ Navigation
  \/ \E e \in FreshEntries, k \in 1..MaxEntries : HostInsertsEntry(e, k)
  \/ \E k \in 1..MaxEntries : HostRemovesEntry(k)

Spec == Init /\ [][Next]_vars

\* The same system when the host only ever inserts entries.
NextInsertOnly ==
  \/ \E m \in VisibilityMessages : SettingsChanged(m)
  \/ \E stored \in RecordsOver(VisibilityFlags) : LoadSettings(stored)
  \/ LoadSettingsFails
  \/ Navigation
  \/ \E e \in FreshEntries, k \in 1..MaxEntries : HostInsertsEntry(e, k)

SpecInsertOnly == Init /\ [][NextInsertOnly]_vars

(***************************************************************************)
(* The policy of the specification's section 4.2, stated on its own.       *)
(***************************************************************************)
\* A later deployment entry of the same environment exists.
NotMostRecent(d, i) ==
  \E j \in DOMAIN d : j > i /\ IsDeployed(d[j]) /\ EnvName(d[j]) = EnvName(d[i])

PolicyHides(s, d, i) ==
  /\ s.enabled
  /\ \/ IsDeployed(d[i])
        /\ \/ s.hideSuccessfulDeployments
           \/ s.hideOldSuccessfulDeployments /\ NotMostRecent(d, i)
     \/ IsDestroyed(d[i]) /\ s.hideDestroyedDeployments
     \/ IsFailed(d[i]) /\ s.hideFailedDeployments

HiddenSet(d) == {i \in DOMAIN d : Hidden(d[i])}

\* C1: while enabled is false since a settingsChanged notification, no entry
\* carries any of the four hide classes, whatever the other flags are and
\* whatever mutation batches and navigations follow.
C1_DisabledOverridesAll ==
  offByMsg => \A i \in DOMAIN doc : doc[i].cls \cap HideClasses = {}

\* Reached: disabled by a notification, then a later batch or navigation, with
\* hide flags on and a document full of entries.
C1_Witness ==
  /\ offByMsg /\ ~afterSettings /\ pc = "ready"
  /\ settings.hideSuccessfulDeployments /\ settings.hideDestroyedDeployments
  /\ Len(doc) = MaxEntries
  /\ \E i \in DOMAIN doc : IsDeployed(doc[i])
  /\ \E i \in DOMAIN doc : IsDestroyed(doc[i])

\* C2: once initialization has completed, every entry is hidden exactly when
\* the policy hides it under the cached snapshot.
C2_VisibilityConsistency ==
  pc = "ready" => \A i \in DOMAIN doc : Hidden(doc[i]) <=> PolicyHides(settings, doc, i)

\* C3: with enabled, hideSuccessfulDeployments and hideOldSuccessfulDeployments
\* all true, every deployment entry is hidden once a reconciliation has run,
\* the most recent of each environment included.
C3_Precedence ==
  (pc = "ready" \/ afterSettings)
  /\ settings.enabled
  /\ settings.hideSuccessfulDeployments
  /\ settings.hideOldSuccessfulDeployments
  => \A i \in DOMAIN doc : IsDeployed(doc[i]) => Hidden(doc[i])

\* Reached: both flags on, and the most recent entry of a group of two is hidden.
C3_Witness ==
  /\ pc = "ready" /\ settings.enabled
  /\ settings.hideSuccessfulDeployments /\ settings.hideOldSuccessfulDeployments
  /\ \E i, j \in DOMAIN doc :
       /\ i < j /\ IsDeployed(doc[i]) /\ IsDeployed(doc[j])
       /\ EnvName(doc[i]) = EnvName(doc[j])
       /\ ~NotMostRecent(doc, j)
       /\ Hidden(doc[j])

\* C5: right after a settingsChanged reconciliation with enabled=true and
\* hideSuccessfulDeployments=false, the hidden deployment entries are exactly
\* the ones that are not the most recent of their environment when
\* hideOldSuccessfulDeployments=true, and none otherwise.
C5_SuccessfulRule ==
  afterSettings /\ settings.enabled /\ ~settings.hideSuccessfulDeployments
  => \A i \in DOMAIN doc :
       IsDeployed(doc[i]) =>
         (Hidden(doc[i]) <=> (settings.hideOldSuccessfulDeployments /\ NotMostRecent(doc, i)))

\* The destroyed and failed rules, on the current state.
DestroyedFailedRule ==
  \A i \in DOMAIN doc :
    /\ IsDestroyed(doc[i]) => (Hidden(doc[i]) <=> settings.hideDestroyedDeployments)
    /\ IsFailed(doc[i]) => (Hidden(doc[i]) <=> settings.hideFailedDeployments)

StatusClasses(e) == e.cls \cap {CLASS_DESTROYED_DEPLOYMENT, CLASS_FAILED_DEPLOYMENT}

SeqsUpTo(S, n) == UNION {[1..k -> S] : k \in 0..n}

OldInputEntries ==
  {NewEntry("deployed", l) : l \in LinkTexts \cup {NoLink}}
    \cup {NewEntry("destroyed", NoLink)}

InitOld ==
  /\ settings = DEFAULT_SETTINGS
  /\ expansionCount = 0
  /\ hasAutoExpandedEnvironments = FALSE
  /\ pc = "input"
  /\ doc \in SeqsUpTo(OldInputEntries, MaxOldEntries)
  /\ buttons = 0
  /\ loading = 0
  /\ envs = <<>>
  /\ attrQueue = <<>>
  /\ clicks = 0
  /\ envClicks = 0
  /\ exhausted = FALSE
  /\ offByMsg = FALSE
  /\ afterSettings = FALSE
  /\ navigated = FALSE
  /\ PopupClosed

HideOld ==
  /\ pc = "input"
  /\ doc' = hideOldSuccessfulDeployments(doc)
  /\ pc' = "output"
  /\ UNCHANGED <<settings, expansionCount, hasAutoExpandedEnvironments, buttons, loading,
                 envs, attrQueue, clicks, envClicks, exhausted, offByMsg, afterSettings, navigated,
                 field, store, outbox, tasks, origin>>

NextOld == HideOld

SpecOld == InitOld /\ [][NextOld]_vars

EnvNames == LinkTexts \cup {"unknown"}

OldMarked(d) == {i \in DOMAIN d : CLASS_OLD_DEPLOYMENT \in d[i].cls}

\* C4: after old-deployment hiding of a document without prior classes, every
\* environment with N >= 1 deployment entries has exactly N - 1 of them
\* marked, the unmarked one is the last of the environment in document order,
\* and nothing else is marked.
C4_GroupingInvariant ==
  pc = "output" =>
    /\ \A env \in EnvNames :
         LET g == {i \in DOMAIN doc : IsDeployed(doc[i]) /\ EnvName(doc[i]) = env}
             marked == g \cap OldMarked(doc)
         IN  g # {} =>
               /\ Cardinality(marked) = Cardinality(g) - 1
               /\ \A i \in g \ marked : \A j \in g : j <= i
    /\ \A i \in OldMarked(doc) : IsDeployed(doc[i])

\* Reached: 3 'staging' entries then 1 'prod' entry; the first two 'staging'
\* entries are marked, the third and the 'prod' entry are not.
C4_Witness ==
  /\ pc = "output"
  /\ doc = << [kind |-> "deployed", link |-> "staging", cls |-> {CLASS_OLD_DEPLOYMENT}],
              [kind |-> "deployed", link |-> "staging", cls |-> {CLASS_OLD_DEPLOYMENT}],
              [kind |-> "deployed", link |-> "staging", cls |-> {}],
              [kind |-> "deployed", link |-> "prod", cls |-> {}] >>

(***************************************************************************)
(* applySettings run again and again on one page with the same snapshot:   *)
(* the notification repeats a value the snapshot already holds.  The pages *)
(* are the ones whose entries carry any of the classes of their kind.  No  *)
(* observer is installed (pc = "loading"), so that nothing runs between    *)
(* two runs of applySettings.                                              *)
(***************************************************************************)
MaxReconcileEntries == 2

ReconcileFlags == VisibilityFlags \cup {"autoExpandEnvironments", "environmentsFullHeight"}

MarkedEntries ==
  {[kind |-> "deployed", link |-> "staging", cls |-> c] :
      c \in SUBSET {CLASS_SUCCESSFUL_DEPLOYMENT, CLASS_OLD_DEPLOYMENT}}
    \cup {[kind |-> "destroyed", link |-> NoLink, cls |-> c] :
            c \in SUBSET {CLASS_DESTROYED_DEPLOYMENT}}
    \cup {[kind |-> "failed", link |-> NoLink, cls |-> c] :
            c \in SUBSET {CLASS_FAILED_DEPLOYMENT}}

Boxes == [expanded : BOOLEAN, full : BOOLEAN]

InitReconcile ==
  /\ settings \in RecordsOver(ReconcileFlags)
  /\ expansionCount = 0
  /\ hasAutoExpandedEnvironments \in BOOLEAN
  /\ pc = "loading"
  /\ doc \in SeqsUpTo(MarkedEntries, MaxReconcileEntries)
  /\ buttons = 1
  /\ loading = 0
  /\ envs \in SeqsUpTo(Boxes, MaxSections)
  /\ attrQueue = <<>>
  /\ clicks = 0
  /\ envClicks = 0
  /\ exhausted = FALSE
  /\ offByMsg = FALSE
  /\ afterSettings = FALSE
  /\ navigated = FALSE
  /\ PopupClosed

NextReconcile == SettingsChanged(Single("enabled", settings.enabled))

SpecReconcile == InitReconcile /\ [][NextReconcile]_vars

\* C7: a reconciliation that follows a reconciliation, the document and the
\* settings unchanged in between, leaves the set of hidden entries, the
\* expansion counter and the latch as the first one left them.
C7_Idempotence ==
  [][ afterSettings =>
        /\ HiddenSet(doc') = HiddenSet(doc)
        /\ expansionCount' = expansionCount
        /\ hasAutoExpandedEnvironments' = hasAutoExpandedEnvironments ]_vars

\* Reached: a reconciliation has hidden entries and has expanded a box.
C7_Witness ==
  /\ afterSettings /\ settings.enabled
  /\ hasAutoExpandedEnvironments /\ envClicks = 1
  /\ Len(doc) = MaxReconcileEntries
  /\ HiddenSet(doc) # {}
  /\ HiddenSet(doc) # DOMAIN doc

(***************************************************************************)
(* Specification of the pagination driver: the document holds "Load more"  *)
(* controls and unclassified timeline content only.                        *)
(***************************************************************************)
Limits == 1..MaxLimit

InitPagination ==
  /\ InitScript
  /\ doc = <<>>
  /\ buttons \in 0..MaxButtons
  /\ loading = 0
  /\ envs = <<>>

PaginationRecords ==
  {Merge(r, Single("expansionLimit", l)) : r \in RecordsOver(PaginationFlags), l \in Limits}

PaginationMessages ==
  {Single(k, v) : k \in PaginationFlags, v \in BOOLEAN}
    \cup {Single("expansionLimit", l) : l \in Limits}
    \cup {DEFAULT_SETTINGS}

NextPagination ==
  \/ \E m \in PaginationMessages : SettingsChanged(m)
  \/ \E stored \in PaginationRecords : LoadSettings(stored)
  \/ LoadSettingsFails
  \/ Navigation
  \/ HostInsertsContent
  \/ HostInsertsButton
  \/ \E again \in BOOLEAN : HostDeliversMore(again)

SpecPagination == InitPagination /\ [][NextPagination]_vars

\* C9 as stated: in every reachable state 0 <= expansionCount <= expansionLimit.
C9_CounterRange ==
  0 <= expansionCount /\ expansionCount <= settings.expansionLimit

\* C9 amended: expansionCount is never negative, every step that changes it
\* leaves it at most expansionLimit, and it rises above expansionLimit only
\* when a step lowers expansionLimit below the count already reached.
C9_CounterRangeAmended ==
  [][ /\ expansionCount' >= 0
      /\ expansionCount' # expansionCount => expansionCount' <= settings'.expansionLimit
      /\ (expansionCount <= settings.expansionLimit
            /\ expansionCount' > settings'.expansionLimit)
           => /\ settings'.expansionLimit < settings.expansionLimit
              /\ expansionCount' = expansionCount ]_vars

\* Reached: a notification in the middle of a page lifetime leaves the limit
\* equal to a count of at least one trigger.
C9_Witness ==
  /\ afterSettings /\ pc = "ready"
  /\ clicks >= 1
  /\ expansionCount = settings.expansionLimit

\* C10 as stated: once expansionCount has reached expansionLimit in a page
\* lifetime, no later step of that lifetime triggers a "Load more" control.
\* (With exhausted the count is at least 1, and a navigation leaves clicks at
\* most 1, so only a trigger within the lifetime raises clicks.)
C10_ExhaustedTerminal ==
  [][ exhausted => clicks' <= clicks ]_vars

\* C10 amended: in a state where expansionCount >= expansionLimit of the
\* cached snapshot, no mutation batch and no notification triggers a "Load
\* more" control; triggers resume only after a navigation or after a
\* notification has raised expansionLimit above the count.
C10_ExhaustedAmended ==
  [][ expansionCount >= settings.expansionLimit => clicks' <= clicks ]_vars

\* Reached: the limit is reached, a batch has come since, an idle control is
\* in the document and it was not triggered.
C10_Witness ==
  /\ pc = "ready" /\ ~afterSettings
  /\ settings.enabled /\ settings.autoExpandLoadMore
  /\ expansionCount >= settings.expansionLimit
  /\ clicks = settings.expansionLimit
  /\ buttons >= 1 /\ loading = 0

(***************************************************************************)
(* The pagination driver under a fixed snapshot with enabled and           *)
(* autoExpandLoadMore on, in a host that renders a new "Load more" control *)
(* after every trigger and delivers every batch.  No navigation.           *)
(***************************************************************************)
InitBounded ==
  /\ InitScript
  /\ doc = <<>>
  /\ buttons = 1
  /\ loading = 0
  /\ envs = <<>>

LoadLimit == \E l \in Limits : LoadSettings(Merge(DEFAULT_SETTINGS, Single("expansionLimit", l)))

NextBounded ==
  \/ LoadLimit
  \/ HostDeliversMore(TRUE)
  \/ HostInsertsContent
  \/ \E e \in StatusEntries, k \in 1..MaxEntries : HostInsertsEntry(e, k)

SpecBounded ==
  /\ InitBounded
  /\ [][NextBounded]_vars
  /\ WF_vars(LoadLimit)
  /\ WF_vars(HostDeliversMore(TRUE))

\* C8: the number of triggers never exceeds expansionLimit, and it reaches
\* expansionLimit and stays there, whatever batches arrive afterwards.
C8_BoundedTermination ==
  /\ [](pc = "ready" => clicks <= settings.expansionLimit)
  /\ <>[](pc = "ready" /\ clicks = settings.expansionLimit
            /\ expansionCount = settings.expansionLimit)

\* Reached: L = 2 triggers were made, the host has delivered the content and
\* rendered a control again, and the control is left alone.
C8_Witness ==
  /\ pc = "ready"
  /\ settings.expansionLimit = 2
  /\ clicks = 2
  /\ buttons = 1 /\ loading = 0

(***************************************************************************)
(* Specification of the environments section: the document holds the       *)
(* boxes '.js-details-container.branch-action-item', each with its toggle  *)
(* button and its '.merge-status-list'.  The aria-expanded records of the  *)
(* script's own clicks are delivered to the observer before anything else  *)
(* runs.                                                                   *)
(***************************************************************************)
\* A box as the host renders it: no inline max-height on its list.
FreshBox(expanded) == [expanded |-> expanded, full |-> FALSE]

\* The host inserts a box, collapsed or expanded.
HostInsertsBox(expanded) ==
  /\ attrQueue = <<>>
  /\ Len(envs) < MaxSections
  /\ Observe(Batch(<<>>, FALSE, FALSE, TRUE, TRUE),
             [Page EXCEPT !.envs = Append(@, FreshBox(expanded))])

\* The host renders box i again, collapsed or expanded.
HostRerendersBox(i, expanded) ==
  /\ attrQueue = <<>>
  /\ i \in DOMAIN envs
  /\ Observe(Batch(<<>>, FALSE, FALSE, TRUE, TRUE),
             [Page EXCEPT !.envs[i] = FreshBox(expanded)])

\* The host removes box i.
HostRemovesBox(i) ==
  /\ attrQueue = <<>>
  /\ i \in DOMAIN envs
  /\ Observe(Batch(<<>>, FALSE, FALSE, FALSE, FALSE),
             [Page EXCEPT !.envs = RemoveAt(@, i)])

\* The user clicks the toggle of box i: the host flips aria-expanded.
UserToggles(i) ==
  /\ attrQueue = <<>>
  /\ i \in DOMAIN envs
  /\ Observe(Batch(<<i>>, FALSE, FALSE, FALSE, FALSE),
             [Page EXCEPT !.envs[i].expanded = ~@])

\* The aria-expanded records of the clicks a handler made reach the observer.
DeliverAttributes ==
  /\ pc = "ready"
  /\ attrQueue # <<>>
  /\ Observe(Batch(attrQueue, FALSE, FALSE, FALSE, FALSE), Page)

EnvFlags == {"enabled", "autoExpandEnvironments", "environmentsFullHeight"}

EnvMessages == {Single(k, v) : k \in EnvFlags, v \in BOOLEAN} \cup {DEFAULT_SETTINGS}

NextEnv ==
  \/ \E m \in EnvMessages : SettingsChanged(m)
  \/ \E stored \in RecordsOver(EnvFlags) : LoadSettings(stored)
  \/ LoadSettingsFails
  \/ Navigation
  \/ \E expanded \in BOOLEAN : HostInsertsBox(expanded)
  \/ \E i \in 1..MaxSections, expanded \in BOOLEAN : HostRerendersBox(i, expanded)
  \/ \E i \in 1..MaxSections : HostRemovesBox(i)
  \/ \E i \in 1..MaxSections : UserToggles(i)
  \/ DeliverAttributes

SpecEnv == Init /\ [][NextEnv]_vars

\* C11: within a page lifetime (from one navigation to the next) the toggles
\* are activated in at most one handler run: once the latch is set no step
\* but a navigation activates a toggle, a run that activates a toggle sets
\* the latch, and that run activates each box at most once, so that a page
\* with one environments section sees at most one activation per lifetime.
C11_SingleShot ==
  [][ LET base == IF Navigation THEN 0 ELSE envClicks
      IN  /\ (hasAutoExpandedEnvironments /\ ~Navigation) => envClicks' = envClicks
          /\ envClicks' > base
               => /\ hasAutoExpandedEnvironments'
                  /\ envClicks' - base
                       <= Cardinality({i \in DOMAIN envs' : envs'[i].expanded}) ]_vars

\* Reached: the toggle was activated once in this lifetime, the box is
\* collapsed again (by the user or by a new rendering), a batch has been
\* handled since, and auto-expansion is still asked for.
C11_Witness ==
  /\ pc = "ready" /\ ~afterSettings
  /\ settings.enabled /\ settings.autoExpandEnvironments
  /\ hasAutoExpandedEnvironments /\ envClicks = 1
  /\ attrQueue = <<>>
  /\ envs # <<>> /\ \A i \in DOMAIN envs : ~envs[i].expanded

(***************************************************************************)
(* Specification of the two expansion drivers together: the document holds *)
(* "Load more" controls and environments boxes, and a batch may insert     *)
(* several controls at once.                                               *)
(***************************************************************************)
MaxControls == 2

\* The host inserts n "Load more" controls in one batch.
HostInsertsButtons(n) ==
  /\ attrQueue = <<>>
  /\ buttons + n <= MaxControls
  /\ Observe(Batch(<<>>, FALSE, TRUE, FALSE, FALSE),
             [Page EXCEPT !.buttons = @ + n])

ExpansionFlags == {"enabled", "autoExpandEnvironments", "autoExpandLoadMore"}

ExpansionMessages ==
  {Single(k, v) : k \in ExpansionFlags, v \in BOOLEAN} \cup {DEFAULT_SETTINGS}

InitExpansion ==
  /\ InitScript
  /\ doc = <<>>
  /\ buttons \in 0..MaxControls
  /\ loading = 0
  /\ envs = <<>>

NextExpansion ==
  \/ \E m \in ExpansionMessages : SettingsChanged(m)
  \/ \E stored \in RecordsOver(ExpansionFlags) : LoadSettings(stored)
  \/ LoadSettingsFails
  \/ Navigation
  \/ \E n \in 1..MaxControls : HostInsertsButtons(n)
  \/ \E again \in BOOLEAN : HostDeliversMore(again)
  \/ \E expanded \in BOOLEAN : HostInsertsBox(expanded)
  \/ \E i \in 1..MaxSections : HostRemovesBox(i)
  \/ \E i \in 1..MaxSections : UserToggles(i)
  \/ DeliverAttributes

SpecExpansion == InitExpansion /\ [][NextExpansion]_vars

\* C12: whatever the counters were, the navigation handler leaves
\* expansionCount equal to the number of "Load more" controls its own pass
\* has activated (0 or 1) and hasAutoExpandedEnvironments true exactly when
\* its own pass has activated a toggle, i.e. both start again from 0 and
\* false; and it leaves the cached snapshot as it was.
C12_NavigationReset ==
  [][ Navigation =>
        /\ settings' = settings
        /\ expansionCount' = clicks' /\ clicks' <= 1
        /\ hasAutoExpandedEnvironments' = (envClicks' > 0) ]_vars

\* Reached: a navigation that found expansionCount raised or the latch set
\* has left both at their initial values (no idle control and no collapsed
\* box in the visited page, both expansions asked for).
C12_Witness ==
  /\ navigated
  /\ settings.enabled /\ settings.autoExpandLoadMore /\ settings.autoExpandEnvironments
  /\ expansionCount = 0 /\ ~hasAutoExpandedEnvironments
  /\ envs # <<>>

\* C13: no step other than a navigation (a mutation batch, a settingsChanged
\* notification, the first pass) lowers expansionCount or clears the latch.
C13_ResetOnlyOnNavigation ==
  [][ Navigation
        \/ /\ expansionCount' >= expansionCount
           /\ hasAutoExpandedEnvironments => hasAutoExpandedEnvironments' ]_vars

\* Reached: expansionCount is raised and the latch set, and a notification
\* that turns the extension off has left both as they were.
C13_Witness ==
  /\ afterSettings /\ pc = "ready"
  /\ ~settings.enabled
  /\ expansionCount > 0 /\ hasAutoExpandedEnvironments

\* C14: one run of a handler (the first pass, a navigation, one mutation
\* batch, a notification) activates at most one "Load more" control and
\* raises expansionCount by at most 1 over the value the run starts from
\* (0 for a navigation), however many idle controls the document holds and
\* however many the batch inserts.
C14_SingleFlight ==
  [][ /\ clicks' - (IF Navigation THEN 0 ELSE clicks) <= 1
      /\ expansionCount' - (IF Navigation THEN 0 ELSE expansionCount) <= 1 ]_vars

\* Reached: with expansionCount below the limit and expansion asked for, a
\* run has activated one control and has left another idle one alone.
C14_Witness ==
  /\ pc = "ready" /\ ~afterSettings
  /\ settings.enabled /\ settings.autoExpandLoadMore
  /\ clicks = 1 /\ expansionCount = 1 /\ expansionCount < settings.expansionLimit
  /\ loading = 1 /\ buttons >= 1

\* C15: a step activates a "Load more" control only if the snapshot it runs
\* on has enabled and autoExpandLoadMore on, and activates an environments
\* toggle only if that snapshot has enabled and autoExpandEnvironments on
\* (for a notification the snapshot is the merged one).
C15_ExpansionGating ==
  [][ /\ clicks' > (IF Navigation THEN 0 ELSE clicks)
           => settings'.enabled /\ settings'.autoExpandLoadMore
      /\ envClicks' > (IF Navigation THEN 0 ELSE envClicks)
           => settings'.enabled /\ settings'.autoExpandEnvironments ]_vars

\* Reached: the extension is off, an idle control and a collapsed box are in
\* the document, the limit is not reached and the latch is not set, and the
\* batch that came last has activated nothing.
C15_Witness ==
  /\ pc = "ready" /\ ~afterSettings /\ ~navigated
  /\ ~settings.enabled /\ settings.autoExpandLoadMore /\ settings.autoExpandEnvironments
  /\ buttons >= 1 /\ expansionCount < settings.expansionLimit
  /\ ~hasAutoExpandedEnvironments
  /\ \E i \in DOMAIN envs : ~envs[i].expanded

(***************************************************************************)
(* Notifications alone, on every snapshot a read can have left and every   *)
(* document of marked entries, after initialization.                       *)
(***************************************************************************)
InitMerge ==
  /\ settings \in RecordsOver(VisibilityFlags)
  /\ expansionCount = 0
  /\ hasAutoExpandedEnvironments = FALSE
  /\ pc = "ready"
  /\ doc \in SeqsUpTo(MarkedEntries, MaxReconcileEntries)
  /\ buttons = 0
  /\ loading = 0
  /\ envs = <<>>
  /\ attrQueue = <<>>
  /\ clicks = 0
  /\ envClicks = 0
  /\ exhausted = FALSE
  /\ offByMsg = FALSE
  /\ afterSettings = FALSE
  /\ navigated = FALSE
  /\ PopupClosed

NextMerge == \E m \in VisibilityMessages : SettingsChanged(m)

SpecMerge == InitMerge /\ [][NextMerge]_vars

\* C16: a settingsChanged notification with the partial record m leaves a
\* snapshot that has the value of m for every key of m and the previous value
\* for every other key, and the reconciliation of the same step follows the
\* merged snapshot: with enabled off no entry is hidden, with enabled on a
\* destroyed (failed) entry is hidden iff hideDestroyedDeployments
\* (hideFailedDeployments) is on and a deployment entry carries the
\* successful class iff hideSuccessfulDeployments is on.
C16_PartialMerge ==
  [][ \A m \in VisibilityMessages :
        SettingsChanged(m) =>
          /\ DOMAIN settings' = DOMAIN settings
          /\ \A k \in DOMAIN settings :
               settings'[k] = IF k \in DOMAIN m THEN m[k] ELSE settings[k]
          /\ IF ~settings'.enabled THEN HiddenSet(doc') = {}
             ELSE /\ DestroyedFailedRule'
                  /\ \A i \in DOMAIN doc' :
                       IsDeployed(doc'[i]) =>
                         (CLASS_SUCCESSFUL_DEPLOYMENT \in doc'[i].cls
                            <=> settings'.hideSuccessfulDeployments) ]_vars

\* Reached: after a notification the snapshot differs from the defaults in
\* two keys (a one-key message has kept the other one), and the document
\* holds a failed entry that is hidden and a destroyed entry that is not.
C16_Witness ==
  /\ afterSettings /\ pc = "ready"
  /\ settings.enabled
  /\ settings.hideFailedDeployments /\ ~settings.hideDestroyedDeployments
  /\ \E i \in DOMAIN doc : IsFailed(doc[i]) /\ Hidden(doc[i])
  /\ \E i \in DOMAIN doc : IsDestroyed(doc[i]) /\ ~Hidden(doc[i])

MaxText == 3     \* characters typed in the input

MinExpansionLimit == 1
MaxExpansionLimit == 99
FallbackExpansionLimit == 2

Digits == <<"0", "1", "2", "3", "4", "5", "6", "7", "8", "9">>
IsDigit(c) == \E v \in DOMAIN Digits : Digits[v] = c
DigitValue(c) == (CHOOSE v \in DOMAIN Digits : Digits[v] = c) - 1

\* The characters the user types.
Chars == {"-", "0", "1", "9", "a"}
Texts == SeqsUpTo(Chars, MaxText)

\* The longest prefix of t made of digits.
RECURSIVE DigitPrefix(_)
DigitPrefix(t) ==
  IF t = <<>> \/ ~IsDigit(Head(t)) THEN <<>>
  ELSE <<Head(t)>> \o DigitPrefix(Tail(t))

\* The number a sequence of digits denotes in base 10.
RECURSIVE Decimal(_)
Decimal(ds) ==
  IF ds = <<>> THEN 0
  ELSE 10 * Decimal(SubSeq(ds, 1, Len(ds) - 1)) + DigitValue(ds[Len(ds)])

\* parseInt(text): an optional sign, then the digits up to the first other
\* character; <<n>> for the number n, <<>> for NaN.
parseInt(t) ==
  LET neg == t # <<>> /\ Head(t) = "-"
      ds == DigitPrefix(IF neg THEN Tail(t) ELSE t)
  IN  IF ds = <<>> THEN <<>>
      ELSE IF neg THEN <<0 - Decimal(ds)>> ELSE <<Decimal(ds)>>

\* x || y on a parsed number: NaN and 0 are falsy.
OrElse(x, y) == IF x = <<>> \/ x[1] = 0 THEN y ELSE x[1]

Min(a, b) == IF a <= b THEN a ELSE b
Max(a, b) == IF a >= b THEN a ELSE b

\* Math.max(1, Math.min(99, parseInt(e.target.value) || 2))
ExpansionLimitValue(t) ==
  Max(MinExpansionLimit,
      Min(MaxExpansionLimit, OrElse(parseInt(t), FallbackExpansionLimit)))

\* String(n) for n >= 0.
RECURSIVE ToText(_)
ToText(n) ==
  IF n < 10 THEN <<Digits[n + 1]>>
  ELSE ToText(n \div 10) \o <<Digits[(n % 10) + 1]>>

\* What saveSetting(key, value) leaves in the store.
Written(st, key, value) ==
  [k \in DOMAIN st \cup {key} |-> IF k = key THEN value ELSE st[k]]

InitPopup ==
  /\ settings = DEFAULT_SETTINGS
  /\ expansionCount = 0
  /\ hasAutoExpandedEnvironments = FALSE
  /\ pc = "loading"
  /\ attrQueue = <<>>
  /\ clicks = 0
  /\ envClicks = 0
  /\ exhausted = FALSE
  /\ offByMsg = FALSE
  /\ afterSettings = FALSE
  /\ navigated = FALSE
  /\ doc = <<>>
  /\ buttons = 0
  /\ loading = 0
  /\ envs = <<>>
  /\ field \in Texts
  /\ store = NoRecord
  /\ outbox = <<>>
  /\ tasks = <<>>
  /\ origin = NoRecord

\* The change listener of the expansion-limit input.
ExpansionLimitChanged ==
  /\ outbox = <<>>
  /\ LET value == ExpansionLimitValue(field)
     IN  /\ field' = ToText(value)
         /\ store' = Written(store, "expansionLimit", value)
         /\ outbox' = Append(outbox, Single("expansionLimit", value))
  /\ UNCHANGED <<settings, expansionCount, hasAutoExpandedEnvironments, pc, doc,
                 buttons, loading, envs, attrQueue, clicks, envClicks, exhausted,
                 offByMsg, afterSettings, navigated, tasks, origin>>

NextPopup == ExpansionLimitChanged

SpecPopup == InitPopup /\ [][NextPopup]_vars

\* The text is an integer numeral: an optional sign and at least one digit.
IsIntegerText(t) ==
  LET body == IF t # <<>> /\ Head(t) = "-" THEN Tail(t) ELSE t
  IN  body # <<>> /\ \A i \in DOMAIN body : IsDigit(body[i])

IntegerOf(t) ==
  IF Head(t) = "-" THEN 0 - Decimal(Tail(t)) ELSE Decimal(t)

Nearest(n) ==
  IF n < MinExpansionLimit THEN MinExpansionLimit
  ELSE IF n > MaxExpansionLimit THEN MaxExpansionLimit
  ELSE n

\* C18: for every integer typed in the expansion-limit input, the value
\* written to the store and sent to the tabs is the nearest value of
\* [1, 99]: 1 for every integer below 1 (0 and the negatives), 99 for every
\* integer above 99, the integer itself otherwise.
C18_ClampNearest ==
  [][ (ExpansionLimitChanged /\ IsIntegerText(field)) =>
        /\ store' = Single("expansionLimit", Nearest(IntegerOf(field)))
        /\ outbox' = <<Single("expansionLimit", Nearest(IntegerOf(field)))>> ]_vars

(***************************************************************************)
(* The snapshot when the store and the notifications carry any integer as  *)
(* expansionLimit, not only the values the popup writes.  The document     *)
(* holds the "Load more" controls it starts with.                          *)
(***************************************************************************)
AnyLimits ==
  {MinExpansionLimit - 2, MinExpansionLimit - 1} \cup Limits
    \cup {MaxExpansionLimit, MaxExpansionLimit + 1}

AnyLimitRecords ==
  {Merge(r, Single("expansionLimit", l)) : r \in RecordsOver(PaginationFlags), l \in AnyLimits}

AnyLimitMessages ==
  {Single(k, v) : k \in PaginationFlags, v \in BOOLEAN}
    \cup {Single("expansionLimit", l) : l \in AnyLimits}

NextAnyLimit ==
  \/ \E m \in AnyLimitMessages : SettingsChanged(m)
  \/ \E stored \in AnyLimitRecords : LoadSettings(stored)
  \/ LoadSettingsFails
  \/ Navigation

SpecAnyLimit == InitPagination /\ [][NextAnyLimit]_vars

ClearMarkers(d) == [i \in DOMAIN d |-> [d[i] EXCEPT !.cls = {}]]

FullReconciliation(s, d) ==
  ApplyFailed(s, ApplyDestroyed(s, ApplySuccessful(s, ClearMarkers(d))))

\* C20: with enabled on, after the observer has handled a batch that inserts
\* a deployment entry or a destroyed/failed status entry at any position, the
\* set of hidden entries is the one a full reconciliation of the resulting
\* document, cleared of all markers, gives under the same snapshot.
C20_IncrementalEqualsFull ==
  [][ (pc = "ready" /\ settings.enabled /\ Len(doc') = Len(doc) + 1)
        => HiddenSet(doc') = HiddenSet(FullReconciliation(settings', doc')) ]_vars

\* C21: after a settingsChanged reconciliation with enabled on,
\* hideSuccessfulDeployments off and hideOldSuccessfulDeployments on, the last
\* deployment entry of every environment carries no gh-hide-old-deployment
\* class, also when the host has inserted or removed entries since the
\* reconciliation before.
C21_MostRecentVisible ==
  (/\ afterSettings /\ settings.enabled
   /\ ~settings.hideSuccessfulDeployments /\ settings.hideOldSuccessfulDeployments)
  => \A env \in EnvNames :
       LET g == deploymentsByEnv(doc, env)
       IN  g # {} => CLASS_OLD_DEPLOYMENT \notin doc[LastOf(g)].cls

\* C22: when the observer handles the aria-expanded change of the toggle of a
\* box, the list of that box has its max-height override set if the toggle
\* is now expanded and enabled and environmentsFullHeight are both on, keeps
\* the override it had if the toggle is expanded and either flag is off, and
\* has no override if the toggle is now collapsed, whatever the flags.
C22_ToggleAttribute ==
  [][ \A i \in 1..MaxSections :
        (pc = "ready" /\ UserToggles(i)) =>
          IF envs'[i].expanded
          THEN IF settings.enabled /\ settings.environmentsFullHeight
               THEN envs'[i].full
               ELSE envs'[i].full = envs[i].full
          ELSE ~envs'[i].full ]_vars

\* Reached: with enabled and environmentsFullHeight on, a box that was
\* auto-expanded is collapsed again and its list carries no override.
C22_Witness ==
  /\ pc = "ready" /\ ~afterSettings /\ ~navigated
  /\ settings.enabled /\ settings.environmentsFullHeight
  /\ hasAutoExpandedEnvironments /\ envClicks = 1
  /\ attrQueue = <<>>
  /\ \E i \in DOMAIN envs : ~envs[i].expanded /\ ~envs[i].full

\* C23: after a settingsChanged notification that leaves
\* environmentsFullHeight off in the snapshot, no list carries the max-height
\* override, whatever enabled and autoExpandEnvironments are and whether the
\* box is expanded or collapsed.
C23_FullHeightOffRestores ==
  (afterSettings /\ ~settings.environmentsFullHeight)
    => \A i \in DOMAIN envs : ~envs[i].full

\* C24: at the end of every handler, a box whose toggle is collapsed has a
\* list without max-height override: the override is set only on the list of
\* an expanded box.
C24_OverrideOnlyExpanded ==
  \A i \in DOMAIN envs : envs[i].full => envs[i].expanded

\* C25: at the end of the first pass, of a navigation pass and of a mutation
\* batch, with enabled and environmentsFullHeight on, the list of every
\* expanded box has the max-height override, whatever
\* autoExpandEnvironments is.
C25_FullHeightWhenExpanded ==
  (/\ pc = "ready" /\ ~afterSettings
   /\ settings.enabled /\ settings.environmentsFullHeight)
  => \A i \in DOMAIN envs : envs[i].expanded => envs[i].full

(***************************************************************************)
(* The observer callback handed batches of every shape while the host      *)
(* leaves the document alone and the snapshot stays as the read left it.   *)
(***************************************************************************)
BatchFlags == {"hideSuccessfulDeployments", "autoExpandEnvironments",
               "environmentsFullHeight", "autoExpandLoadMore"}

\* The batches over the boxes of a page: at most one aria-expanded record,
\* and added nodes of any of the four shapes.
Batches(n) ==
  {Batch(a, dep, tl, env, list) :
     a \in {<<>>} \cup {<<i>> : i \in 1..n},
     dep \in BOOLEAN, tl \in BOOLEAN, env \in BOOLEAN, list \in BOOLEAN}

\* The observer is handed the batch b; the document has not changed.
DeliverBatch(b) ==
  /\ pc = "ready"
  /\ attrQueue = <<>>
  /\ Observe(b, Page)

MaxIdle == 3    \* idle "Load more" controls in the page at the start

\* The page holds timeline entries, or it holds controls and boxes.
InitBatch ==
  /\ InitScript
  /\ loading = 0
  /\ \/ /\ doc \in SeqsUpTo(FreshEntries, MaxReconcileEntries)
        /\ buttons = 0
        /\ envs = <<>>
     \/ /\ doc = <<>>
        /\ buttons \in 0..MaxIdle
        /\ envs \in SeqsUpTo(Boxes, MaxSections)

NextBatch ==
  \/ \E stored \in RecordsOver(BatchFlags), l \in Limits :
       LoadSettings(Merge(stored, Single("expansionLimit", l)))
  \/ \E b \in Batches(Len(envs)) : DeliverBatch(b)

SpecBatch == InitBatch /\ [][NextBatch]_vars

\* The page the observer leaves when it is handed b on the page p.
Handled(b, p) == observerCallback(settings, b, [p EXCEPT !.attrQueue = <<>>])

\* What the claim compares: hide classes, overrides, latch, toggle activations.
Reconciled(p) ==
  <<p.doc, p.envs, p.hasAutoExpandedEnvironments, p.envClicks>>

\* C26 as stated: handing the observer the same batch twice in a row leaves
\* the same hide classes, the same max-height overrides, the same
\* expansionCount, the same latch and the same numbers of activations as
\* handing it once.
C26_RedundantBatch ==
  pc = "ready" =>
    \A b \in Batches(Len(envs)) :
      LET once == Handled(b, Page)
          twice == Handled(b, once)
      IN  /\ Reconciled(twice) = Reconciled(once)
          /\ twice.expansionCount = once.expansionCount
          /\ twice.clicks = once.clicks

\* C26 amended: the second handing leaves the hide classes, the overrides,
\* the latch and the toggle activations of the first; it activates one more
\* "Load more" control, and raises expansionCount by one, exactly when the
\* batch has timeline content, enabled and autoExpandLoadMore are on, an idle
\* control is left and expansionCount is below expansionLimit.
C26_RedundantBatchAmended ==
  pc = "ready" =>
    \A b \in Batches(Len(envs)) :
      LET once == Handled(b, Page)
          twice == Handled(b, once)
          more == /\ b.newTimeline /\ settings.enabled /\ settings.autoExpandLoadMore
                  /\ once.buttons > 0
                  /\ once.expansionCount < settings.expansionLimit
          step == IF more THEN 1 ELSE 0
      IN  /\ Reconciled(twice) = Reconciled(once)
          /\ twice.expansionCount = once.expansionCount + step
          /\ twice.clicks = once.clicks + step

\* Reached: of three idle controls one was activated by the first pass and
\* one by a batch of timeline content handed to the observer while the
\* document stayed as it was; a further handing will activate the third.
\* The box is expanded at full height as the first pass left it.
C26_Witness ==
  /\ pc = "ready"
  /\ clicks = 2 /\ expansionCount = 2 /\ loading = 2
  /\ buttons > 0 /\ expansionCount < settings.expansionLimit
  /\ envClicks = 1 /\ hasAutoExpandedEnvironments
  /\ \A i \in DOMAIN envs : envs[i].expanded /\ envs[i].full

\* The entries of a document without their classes.
Shape(d) == [i \in DOMAIN d |-> [kind |-> d[i].kind, link |-> d[i].link]]

\* C27: every step leaves the timeline entries of the document as they were,
\* in the same order, or is a host insertion after which the entries are the
\* ones the host left; a handler changes nothing of an entry but its hide
\* classes, which are among the four of the script, and the disabled
\* reconciliation reveals every entry hidden at the end of any step.
C27_ReconciliationFrame ==
  [][ /\ \/ Shape(doc') = Shape(doc)
         \/ \E e \in FreshEntries, k \in 1..(Len(doc) + 1) :
              Shape(doc') = Shape(InsertAt(doc, k, e)) /\ HostInsertsEntry(e, k)
      /\ \A i \in DOMAIN doc' : doc'[i].cls \subseteq HideClasses
      /\ HiddenSet(ShowEverything(doc')) = {} ]_vars

\* Reached: three entries in the order the host gave them, two of them
\* hidden by a reconciliation and one not.
C27_Witness ==
  /\ afterSettings /\ settings.enabled
  /\ Len(doc) = MaxEntries
  /\ Cardinality(HiddenSet(doc)) = 2
  /\ IsDestroyed(doc[1]) /\ Hidden(doc[1])
  /\ IsFailed(doc[2]) /\ ~Hidden(doc[2])
  /\ IsDeployed(doc[3]) /\ Hidden(doc[3])

(***************************************************************************)
(* hideOldSuccessfulDeployments on documents whose deployment entries have *)
(* no environment link, the link text "unknown" (bare or padded with white *)
(* space) or another link text.                                            *)
(***************************************************************************)
SentinelTexts == {NoLink, "unknown", " unknown ", "staging"}

SentinelEntries == {NewEntry("deployed", l) : l \in SentinelTexts}

InitSentinel ==
  /\ settings = DEFAULT_SETTINGS
  /\ expansionCount = 0
  /\ hasAutoExpandedEnvironments = FALSE
  /\ pc = "input"
  /\ doc \in SeqsUpTo(SentinelEntries, MaxOldEntries)
  /\ buttons = 0
  /\ loading = 0
  /\ envs = <<>>
  /\ attrQueue = <<>>
  /\ clicks = 0
  /\ envClicks = 0
  /\ exhausted = FALSE
  /\ offByMsg = FALSE
  /\ afterSettings = FALSE
  /\ navigated = FALSE
  /\ PopupClosed

NextSentinel == HideOld

SpecSentinel == InitSentinel /\ [][NextSentinel]_vars

\* The deployment entries without link, and the ones whose trimmed link text
\* is "unknown".
Unlinked(d) == {i \in DOMAIN d : IsDeployed(d[i]) /\ d[i].link = NoLink}
NamedUnknown(d) ==
  {i \in DOMAIN d : IsDeployed(d[i]) /\ d[i].link # NoLink /\ Trim(d[i].link) = "unknown"}

\* C28: after old-deployment hiding, the K >= 1 deployment entries without
\* an environment link form one group together with the entries whose
\* trimmed link text is "unknown": all of the group but its last entry are
\* marked, so that without an entry named "unknown" exactly K - 1 of the
\* unlinked entries are marked and the last of them is not; an entry with
\* another link text is marked iff a later entry has the same trimmed text,
\* whatever unlinked entries the document holds.
C28_SentinelKey ==
  pc = "output" =>
    LET u == Unlinked(doc)
        g == u \cup NamedUnknown(doc)
    IN  /\ u # {} =>
             /\ \A i \in g : (i \in OldMarked(doc)) <=> (\E j \in g : j > i)
             /\ NamedUnknown(doc) = {} =>
                  Cardinality(u \cap OldMarked(doc)) = Cardinality(u) - 1
        /\ \A i \in DOMAIN doc \ g :
             (i \in OldMarked(doc))
               <=> (\E j \in DOMAIN doc \ g :
                      j > i /\ Trim(doc[j].link) = Trim(doc[i].link))

\* Reached: three unlinked entries, the first two marked and the last not,
\* and a 'staging' entry between them that is not marked.
C28_Witness ==
  /\ pc = "output"
  /\ Len(doc) = 4
  /\ Unlinked(doc) = {1, 2, 4}
  /\ doc[3].link = "staging"
  /\ OldMarked(doc) = {1, 2}

(***************************************************************************)
(* The pagination driver with the steps that are bound to happen: init     *)
(* gets the answer of the settings store, and the host delivers the        *)
(* content an activated control has asked for.  Notifications, navigations *)
(* and other insertions of the host may or may not come.                   *)
(***************************************************************************)
InitCompletes ==
  \/ \E stored \in PaginationRecords : LoadSettings(stored)
  \/ LoadSettingsFails

HostAnswers == \E again \in BOOLEAN : HostDeliversMore(again)

SpecPaginationFair ==
  /\ InitPagination
  /\ [][NextPagination]_vars
  /\ WF_vars(InitCompletes)
  /\ WF_vars(HostAnswers)

\* C29: from every state at the end of a handler with enabled and
\* autoExpandLoadMore on, expansionCount below expansionLimit and an idle
\* "Load more" control in the document, a further control activation
\* follows, unless the snapshot is changed so that expansion is no longer
\* asked for.
C29_PaginationContinues ==
  \A n \in 0..MaxLimit :
    (/\ pc = "ready" /\ settings.enabled /\ settings.autoExpandLoadMore
     /\ expansionCount < settings.expansionLimit /\ buttons > 0
     /\ clicks = n)
    ~> (\/ clicks # n
        \/ ~settings.enabled \/ ~settings.autoExpandLoadMore
        \/ expansionCount >= settings.expansionLimit)

\* C30: the latch is set exactly when the script has clicked an environments
\* toggle in this page lifetime; and when the latch is still unset, with
\* enabled and autoExpandEnvironments on, a collapsed box the host inserts is
\* expanded by the batch that reports it.
C30_LatchTracksActivation ==
  [][/\ hasAutoExpandedEnvironments' <=> (envClicks' > 0)
     /\ (/\ HostInsertsBox(FALSE)
         /\ settings.enabled /\ settings.autoExpandEnvironments
         /\ pc = "ready" /\ ~hasAutoExpandedEnvironments)
        => /\ envClicks' > 0
           /\ envs'[Len(envs')].expanded]_vars

C30_Witness ==
  /\ pc = "ready" /\ hasAutoExpandedEnvironments /\ envClicks = 1
  /\ Len(envs) = 1 /\ envs[1].expanded /\ attrQueue # <<>>

\* C31: a settingsChanged notification, whatever its record and whatever the
\* state, activates no "Load more" control and leaves expansionCount as it
\* was; a step that activates a control is the first pass of init, a
\* navigation or the handling of a mutation batch.
C31_SettingsChangeFrame ==
  [][ LET base == IF Navigation THEN 0 ELSE clicks
      IN  /\ (\E m \in ExpansionMessages : SettingsChanged(m))
               => /\ clicks' = clicks
                  /\ expansionCount' = expansionCount
                  /\ buttons' = buttons
                  /\ loading' = loading
          /\ clicks' > base
               => \/ \E stored \in RecordsOver(ExpansionFlags) : LoadSettings(stored)
                  \/ LoadSettingsFails
                  \/ Navigation
                  \/ \E n \in 1..MaxControls : HostInsertsButtons(n)
                  \/ \E again \in BOOLEAN : HostDeliversMore(again) ]_vars

\* Reached: a notification has just been reconciled on an initialized page
\* where expansion is asked for, the limit is not reached and an idle control
\* is in the document.
C31_Witness ==
  /\ pc = "ready" /\ afterSettings
  /\ settings.enabled /\ settings.autoExpandLoadMore
  /\ expansionCount < settings.expansionLimit
  /\ buttons > 0 /\ clicks = 0

\* C32: when the answer of the startup read arrives right after a
\* settingsChanged notification was handled, the snapshot init leaves keeps
\* every value the notification has moved away from the pre-read default
\* (only a notification writes the snapshot before the read resolves), and
\* the first pass leaves exactly the entries hidden that the policy hides
\* under that snapshot.
C32_StartupRace ==
  [][ (/\ pc = "loading" /\ afterSettings
       /\ \E stored \in RecordsOver(VisibilityFlags) : LoadSettings(stored))
      => /\ \A k \in VisibilityFlags :
              settings[k] # DEFAULT_SETTINGS[k] => settings'[k] = settings[k]
         /\ \A i \in DOMAIN doc' :
              Hidden(doc'[i]) <=> PolicyHides(settings', doc', i) ]_vars

(***************************************************************************)
(* The popup's handlers as asynchronous invocations, with the content      *)
(* script of one pull-request tab.  chrome.storage.sync serves its         *)
(* requests in the order they are issued, so a request takes effect when   *)
(* it is issued; what is left open is when the invocation that awaits the  *)
(* answer goes on.  A task is an invocation suspended at an await: at      *)
(* "get" with the record the read resolves with, at "set" or "query" with  *)
(* the message saveSetting or the reset handler is going to send.          *)
(***************************************************************************)
MaxTasks == 2

SyncKeys == {"enabled", "hideFailedDeployments"}

\* The records chrome.storage.sync may hold: any of the keys, written or not.
StoredRecords == UNION {[ks -> BOOLEAN] : ks \in SUBSET SyncKeys}

\* What chrome.storage.sync.get(DEFAULT_SETTINGS) resolves with.
Persisted(st) == Merge(DEFAULT_SETTINGS, st)

Task(op, at, msg) == [op |-> op, at |-> at, msg |-> msg]

\* Room for one more action of the user.
PopupReady == Len(tasks) + Len(outbox) < MaxTasks

CoreUntouched ==
  UNCHANGED <<settings, expansionCount, hasAutoExpandedEnvironments, pc, doc,
              buttons, loading, envs, attrQueue, clicks, envClicks, exhausted,
              offByMsg, afterSettings, navigated, origin>>

\* saveSetting(key, value) up to its first await.
saveSetting(ts, key, value) ==
  /\ store' = Written(store, key, value)
  /\ tasks' = Append(ts, Task("save", "set", Single(key, value)))

\* The change listener of a switch.
SwitchChanged(key, checked) ==
  /\ PopupReady
  /\ saveSetting(tasks, key, checked)
  /\ UNCHANGED <<field, outbox>>
  /\ CoreUntouched

\* The click listener of the reset button, up to its first await.
ResetClicked ==
  /\ PopupReady
  /\ store' = Merge(store, DEFAULT_SETTINGS)
  /\ tasks' = Append(tasks, Task("reset", "set", DEFAULT_SETTINGS))
  /\ UNCHANGED <<field, outbox>>
  /\ CoreUntouched

\* The click listener of the power button, up to its await.
PowerClicked ==
  /\ PopupReady
  /\ tasks' = Append(tasks, Task("press", "get",
                                 Merge(Single("enabled", TRUE),
                                       [k \in DOMAIN store \cap {"enabled"} |-> store[k]])))
  /\ UNCHANGED <<field, store, outbox>>
  /\ CoreUntouched

\* The invocation suspended as tasks[i] goes on to its next await or its end.
Resume(i) ==
  /\ i \in DOMAIN tasks
  /\ LET t == tasks[i]
         rest == RemoveAt(tasks, i)
     IN  CASE t.op = "press" ->
                /\ saveSetting(rest, "enabled", ~t.msg.enabled)
                /\ UNCHANGED <<field, outbox>>
           [] t.op = "load" ->
                /\ field' = ToText(t.msg.expansionLimit)
                /\ tasks' = rest
                /\ UNCHANGED <<store, outbox>>
           [] t.at = "set" ->
                /\ tasks' = IF t.op = "reset"
                            THEN rest \o <<Task("load", "get", Persisted(store)),
                                           Task("reset", "query", t.msg)>>
                            ELSE Append(rest, Task(t.op, "query", t.msg))
                /\ UNCHANGED <<field, store, outbox>>
           [] OTHER ->
                /\ outbox' = Append(outbox, t.msg)
                /\ tasks' = rest
                /\ UNCHANGED <<field, store>>
  /\ CoreUntouched

\* The onMessage listener gets the oldest message sent to the tab.
NotificationArrives ==
  /\ outbox # <<>>
  /\ attrQueue = <<>>
  /\ LET s == Merge(settings, Head(outbox))
     IN  Leave(s, applySettings(s, Page), "delivery")
  /\ pc' = pc

\* init: the read issued when the script was loaded resolves.
LoadStored == LoadSettings(Persisted(origin))

InitSync ==
  /\ settings = DEFAULT_SETTINGS
  /\ expansionCount = 0
  /\ hasAutoExpandedEnvironments = FALSE
  /\ pc = "loading"
  /\ attrQueue = <<>>
  /\ clicks = 0
  /\ envClicks = 0
  /\ exhausted = FALSE
  /\ offByMsg = FALSE
  /\ afterSettings = FALSE
  /\ navigated = FALSE
  /\ doc = <<>>
  /\ buttons = 0
  /\ loading = 0
  /\ envs = <<>>
  /\ field = ToText(DefaultExpansionLimit)
  /\ store \in StoredRecords
  /\ outbox = <<>>
  /\ tasks = <<>>
  /\ origin = store

NextSync ==
  \/ \E key \in SyncKeys, checked \in BOOLEAN : SwitchChanged(key, checked)
  \/ ResetClicked
  \/ PowerClicked
  \/ \E i \in 1..(MaxTasks + 1) : Resume(i)
  \/ NotificationArrives
  \/ LoadStored
  \/ LoadSettingsFails

SpecSync == InitSync /\ [][NextSync]_vars

\* C33: when the core is initialized, no invocation of the popup is
\* suspended and every message sent has been handled, the cached snapshot
\* equals the persisted record on every key.
C33_SnapshotConverges ==
  (pc = "ready" /\ tasks = <<>> /\ outbox = <<>>)
    => \A k \in DOMAIN settings : settings[k] = Persisted(store)[k]

(***************************************************************************)
(* The power button alone: presses and the invocations they start.  No     *)
(* message is taken from outbox here, so that its length is the number of  *)
(* presses that have completed.                                            *)
(***************************************************************************)
NextPower ==
  \/ PowerClicked
  \/ \E i \in 1..MaxTasks : Resume(i)

SpecPower == InitSync /\ [][NextPower]_vars

\* C34: when k presses of the power button have completed and none is under
\* way, the persisted enabled value is the original one if k is even and its
\* negation if k is odd.
C34_PowerParity ==
  tasks = <<>>
    => Persisted(store).enabled
         = IF Len(outbox) % 2 = 0 THEN Persisted(origin).enabled
           ELSE ~Persisted(origin).enabled
====
